---- MODULE Spec2Model ----
(***************************************************************************)
(* Model of aerleon/lib/openconfig.py: the OpenConfig ACL generator.       *)
(*                                                                         *)
(* Python dicts are functions whose domain is the set of keys present      *)
(* (an absent key is a key outside the domain).  copy.deepcopy is value    *)
(* copy, which is what TLA+ values are.  A Python int stored in a slot     *)
(* that may also hold a str is wrapped as [int |-> n]; the str built by    *)
(* '%d..%d' is wrapped as [str |-> <<start, "..", end>>].                  *)
(***************************************************************************)
EXTENDS Integers, Sequences, FiniteSets, TLC

(***************************************************************************)
(* Bounds of the model.                                                    *)
(***************************************************************************)
\* Total number of list elements (addresses, port ranges, protocols) of a
\* term handed to Term.ConvertToDict in ExpandSpec.
MaxTotal == 4
\* Number of filters of a policy, and number of terms of a policy over all
\* its filters, in Spec.
MaxFilters == 2
MaxTerms == 2

(***************************************************************************)
(* Static tables.                                                          *)
(***************************************************************************)
ACTION_MAP == ("accept" :> "ACCEPT") @@ ("deny" :> "DROP") @@ ("reject" :> "REJECT")

AF_RENAME == (4 :> "ipv4") @@ (6 :> "ipv6")

\* aclgenerator.Term.AF_MAP and PROTO_MAP, consumed as static maps.
AF_MAP == ("inet" :> 4) @@ ("inet6" :> 6)

PROTO_MAP ==
  ("icmp" :> 1) @@ ("tcp" :> 6) @@ ("udp" :> 17) @@ ("esp" :> 50) @@
  ("ah" :> 51) @@ ("ipip" :> 4) @@ ("sctp" :> 132)

_SUPPORTED_AF == {"inet", "inet6", "mixed"}

FAMILY_MAP == ("mixed" :> "ACL_MIXED") @@ ("inet6" :> "ACL_IPV6") @@ ("inet" :> "ACL_IPV4")

(***************************************************************************)
(* Dict helpers.                                                           *)
(***************************************************************************)
\* A fresh defaultdict(RecursiveDict): no key present.
RecursiveDict == [k \in {} |-> 0]

\* d[k] on a RecursiveDict: a missing key reads as a fresh RecursiveDict.
GetItem(d, k) == IF k \in DOMAIN d THEN d[k] ELSE RecursiveDict

\* d[k] = v
SetItem(d, k, v) == (k :> v) @@ d

\* d[block]['config'][key] = v, the intermediate dicts created on demand.
SetConfig(d, block, key, v) ==
  SetItem(d, block,
          SetItem(GetItem(d, block), "config",
                  SetItem(GetItem(GetItem(d, block), "config"), key, v)))

PyInt(n) == [int |-> n]

\* '%d..%d' % (start, end)
FormatRange(start, end) == [str |-> <<start, "..", end>>]

(***************************************************************************)
(* The external policy.Term interface.                                     *)
(***************************************************************************)
V4Addrs == {"10.0.0.1/32", "192.0.2.0/24"}
V6Addrs == {"2001:db8::1/128", "2001:db8:2::/48"}

Version(addr) == IF addr \in V4Addrs THEN 4 ELSE 6

\* term.GetAddressOfVersion(name, af): the addresses of that version, in order.
GetAddressOfVersion(addrs, af) == SelectSeq(addrs, LAMBDA a : Version(a) = af)

IsStr(proto) == "str" \in DOMAIN proto

(***************************************************************************)
(* class Term                                                              *)
(***************************************************************************)
_tcp_established ==
  ("detail-mode" :> "BUILTIN") @@ ("builtin-detail" :> "TCP_ESTABLISHED")

SetName(d, name) == d

SetActionRaw(d, term) ==
  SetItem(d, "actions", [config |-> ("forwarding-action" :> term.action[1])])

SetAction(d, term) ==
  SetItem(d, "actions", [config |-> ("forwarding-action" :> ACTION_MAP[term.action[1]])])

SetComments(d, comments) == d

\* dict.update(other)
Update(d, other) == other @@ d

SetOptionsTcpAmong(d, term) ==
  IF term.option # <<>> /\ \E i \in 1..Len(term.option) : term.option[i] = "tcp-established"
  THEN IF ~\E i \in 1..Len(term.protocol) : term.protocol[i] = [str |-> "tcp"]
       THEN [raised |-> "TcpEstablishedWithNonTcpError", term_dict |-> d]
       ELSE [raised |-> "",
             term_dict |-> SetItem(d, "transport",
                             SetItem(GetItem(d, "transport"), "config",
                                     Update(GetItem(GetItem(d, "transport"), "config"),
                                            _tcp_established)))]
  ELSE [raised |-> "", term_dict |-> d]

SetOptions(d, term) ==
  IF term.option # <<>> /\ \E i \in 1..Len(term.option) : term.option[i] = "tcp-established"
  THEN IF term.protocol # <<[str |-> "tcp"]>>
       THEN [raised |-> "TcpEstablishedWithNonTcpError", term_dict |-> d]
       ELSE [raised |-> "",
             term_dict |-> SetItem(d, "transport",
                             SetItem(GetItem(d, "transport"), "config",
                                     Update(GetItem(GetItem(d, "transport"), "config"),
                                            _tcp_established)))]
  ELSE [raised |-> "", term_dict |-> d]

SetSourceAddress(d, family, saddr) == SetConfig(d, family, "source-address", saddr)

SetDestAddress(d, family, daddr) == SetConfig(d, family, "destination-address", daddr)

SetSourcePorts(d, start, end) ==
  IF start = end
  THEN SetConfig(d, "transport", "source-port", PyInt(start))
  ELSE SetConfig(d, "transport", "source-port", FormatRange(start, end))

SetDestPorts(d, start, end) ==
  IF start = end
  THEN SetConfig(d, "transport", "destination-port", PyInt(start))
  ELSE SetConfig(d, "transport", "destination-port", FormatRange(start, end))

SetProtocolV4(d, family, protocol) == SetConfig(d, "ipv4", "protocol", protocol)

SetProtocol(d, family, protocol) == SetConfig(d, family, "protocol", protocol)

\* "if not xs: xs = [sentinel]"
OrEmpty(xs, sentinel) == xs

OrDefault(xs, sentinel) == IF xs = <<>> THEN <<sentinel>> ELSE xs

(***************************************************************************)
(* The nested loops of Term.ConvertToDict, innermost first.  The state     *)
(* threaded through them is st = [term_dict, rules, raised]: self.term_dict*)
(* is one mutable dict shared by all iterations, rules the list built so   *)
(* far, raised the exception that ended the call ("" while none has).      *)
(***************************************************************************)
RECURSIVE ProtoLoop(_, _, _, _)
ProtoLoop(st, family, protos, i) ==
  IF i > Len(protos) \/ st.raised # "" THEN st
  ELSE LET proto == protos[i] IN
       IF IsStr(proto)
       THEN IF proto.str # "none"
            THEN IF proto.str \notin DOMAIN PROTO_MAP
                 THEN [st EXCEPT !.raised = "OcFirewallError"]
                 ELSE LET d == SetProtocol(st.term_dict, family, PROTO_MAP[proto.str]) IN
                      ProtoLoop([st EXCEPT !.term_dict = d, !.rules = Append(@, d)],
                                family, protos, i + 1)
            ELSE ProtoLoop([st EXCEPT !.rules = Append(@, st.term_dict)],
                           family, protos, i + 1)
       ELSE LET d == SetProtocol(st.term_dict, family, proto.int) IN
            ProtoLoop([st EXCEPT !.term_dict = d, !.rules = Append(@, d)],
                      family, protos, i + 1)

RECURSIVE DestPortLoop(_, _, _, _, _)
DestPortLoop(st, family, dports, protos, i) ==
  IF i > Len(dports) \/ st.raised # "" THEN st
  ELSE LET start == dports[i][1]
           end == dports[i][2]
           d == IF ~(start = end /\ end = 0)
                THEN SetDestPorts(st.term_dict, start, end)
                ELSE st.term_dict
       IN DestPortLoop(ProtoLoop([st EXCEPT !.term_dict = d], family, protos, 1),
                       family, dports, protos, i + 1)

RECURSIVE SourcePortLoop(_, _, _, _, _, _)
SourcePortLoop(st, family, sports, dports, protos, i) ==
  IF i > Len(sports) \/ st.raised # "" THEN st
  ELSE LET start == sports[i][1]
           end == sports[i][2]
           d == IF ~(start = end /\ end = 0)
                THEN SetSourcePorts(st.term_dict, start, end)
                ELSE st.term_dict
       IN SourcePortLoop(DestPortLoop([st EXCEPT !.term_dict = d], family, dports, protos, 1),
                         family, sports, dports, protos, i + 1)

RECURSIVE DestAddressLoop(_, _, _, _, _, _, _)
DestAddressLoop(st, family, daddrs, sports, dports, protos, i) ==
  IF i > Len(daddrs) \/ st.raised # "" THEN st
  ELSE LET d == IF daddrs[i] # "any"
                THEN SetDestAddress(st.term_dict, family, daddrs[i])
                ELSE st.term_dict
       IN DestAddressLoop(
            SourcePortLoop([st EXCEPT !.term_dict = d], family, sports, dports, protos, 1),
            family, daddrs, sports, dports, protos, i + 1)

RECURSIVE SourceAddressLoop(_, _, _, _, _, _, _, _)
SourceAddressLoop(st, family, saddrs, daddrs, sports, dports, protos, i) ==
  IF i > Len(saddrs) \/ st.raised # "" THEN st
  ELSE LET d == IF saddrs[i] # "any"
                THEN SetSourceAddress(st.term_dict, family, saddrs[i])
                ELSE st.term_dict
       IN SourceAddressLoop(
            DestAddressLoop([st EXCEPT !.term_dict = d], family, daddrs, sports, dports, protos, 1),
            family, saddrs, daddrs, sports, dports, protos, i + 1)

\* Term(term, inet_version).ConvertToDict(filter_options).  The result is
\* [raised, rules]: rules is the returned list when raised = "", and the
\* list built up to the raise (which no caller ever sees) otherwise.
ConvertToDict(term, inet_version, filter_options) ==
  LET term_af == AF_MAP[inet_version]
      family == AF_RENAME[term_af]
      d0 == SetAction(SetName(RecursiveDict, term.name), term)
      saddrs == OrDefault(GetAddressOfVersion(term.flattened_saddr, term_af), "any")
      daddrs == OrDefault(GetAddressOfVersion(term.flattened_daddr, term_af), "any")
      sports == OrDefault(term.source_port, <<0, 0>>)
      dports == OrDefault(term.destination_port, <<0, 0>>)
      protos == OrDefault(term.protocol, [str |-> "none"])
      d1 == IF term.comment # <<>> THEN SetComments(d0, term.comment) ELSE d0
      opt == SetOptions(d1, term)
  IN IF opt.raised # ""
     THEN [raised |-> opt.raised, rules |-> <<>>]
     ELSE LET st == SourceAddressLoop([term_dict |-> opt.term_dict, rules |-> <<>>, raised |-> ""],
                                      family, saddrs, daddrs, sports, dports, protos, 1)
          IN [raised |-> st.raised, rules |-> st.rules]

(***************************************************************************)
(* class OpenConfig                                                        *)
(***************************************************************************)
\* list.remove(x): drops the first occurrence of x.
RECURSIVE Remove(_, _)
Remove(xs, x) ==
  IF xs = <<>> THEN <<>>
  ELSE IF Head(xs) = x THEN Tail(xs)
  ELSE <<Head(xs)>> \o Remove(Tail(xs), x)

Contains(xs, x) == \E i \in 1..Len(xs) : xs[i] = x

\* The orders in which "for i in self._SUPPORTED_AF" may visit the frozenset.
IterationOrders ==
  {o \in [1..3 -> _SUPPORTED_AF] : \A i, j \in 1..3 : o[i] = o[j] => i = j}

\* Lines 317-321: the loop over _SUPPORTED_AF, visited in the order `order`,
\* from position i on.
RECURSIVE SupportedAfLoop(_, _, _)
SupportedAfLoop(sel, order, i) ==
  IF i > Len(order) THEN sel
  ELSE IF Contains(sel.filter_options, order[i])
       THEN SupportedAfLoop([address_family |-> order[i],
                             filter_options |-> Remove(sel.filter_options, order[i])],
                            order, i + 1)
       ELSE SupportedAfLoop(sel, order, i + 1)

SelectFamily(options, order) ==
  SupportedAfLoop([address_family |-> "inet", filter_options |-> options], order, 1)

TermAddressFamiliesSwapped(address_family) ==
  IF address_family = "mixed" THEN <<"inet6", "inet">> ELSE <<address_family>>

\* Lines 344-348.
TermAddressFamilies(address_family) ==
  IF address_family = "mixed" THEN <<"inet", "inet6">> ELSE <<address_family>>

\* Lines 351-354 numbering the rules by their position in the rule set.
RECURSIVE AppendRulesPerSet(_, _, _)
AppendRulesPerSet(rules, count, entries) ==
  IF rules = <<>> THEN [total_rule_count |-> count, oc_acl_entries |-> entries]
  ELSE AppendRulesPerSet(Tail(rules), count + 1,
         Append(entries, SetItem(Head(rules), "sequence-id", (Len(entries) + 1) * 5)))

\* Lines 351-354: "for rule in rules: total_rule_count += 1; rule['sequence-id']
\* = total_rule_count * 5; oc_acl_entries.append(rule)".
RECURSIVE AppendRules(_, _, _)
AppendRules(rules, count, entries) ==
  IF rules = <<>> THEN [total_rule_count |-> count, oc_acl_entries |-> entries]
  ELSE AppendRules(Tail(rules), count + 1,
         Append(entries, SetItem(Head(rules), "sequence-id", (count + 1) * 5)))

TermPassKeepPartial(t, af, options, count, entries) ==
  LET r == ConvertToDict(t, af, options)
      a == AppendRules(r.rules, count, entries)
  IN [raised |-> r.raised, rules |-> r.rules,
      total_rule_count |-> a.total_rule_count, oc_acl_entries |-> a.oc_acl_entries]

\* Lines 350-354: one pass of one term under one family.
TermPass(t, af, options, count, entries) ==
  LET r == ConvertToDict(t, af, options)
      a == AppendRules(r.rules, count, entries)
  IN IF r.raised # ""
     THEN [raised |-> r.raised, rules |-> r.rules,
           total_rule_count |-> count, oc_acl_entries |-> entries]
     ELSE [raised |-> "", rules |-> r.rules,
           total_rule_count |-> a.total_rule_count, oc_acl_entries |-> a.oc_acl_entries]

OcAclSet(name, family, entries) ==
  ("acl-entries" :> ("acl-entry" :> entries)) @@
  ("config" :> [name |-> name, type |-> FAMILY_MAP[family]]) @@
  ("name" :> name) @@
  ("type" :> FAMILY_MAP[family])

AppendAclSetIfAny(sets, name, family, entries) ==
  IF entries = <<>> THEN sets ELSE Append(sets, OcAclSet(name, family, entries))

\* Lines 355-362.
AppendAclSet(sets, name, family, entries) ==
  Append(sets, OcAclSet(name, family, entries))

(***************************************************************************)
(* Inputs.                                                                 *)
(***************************************************************************)
\* The policy front end hands over address lists and port lists sorted and
\* without duplicates: such a list is a subset of the values below, in their
\* order.  A port range (0,0) is port 0 named in the policy.
AddrOrder == <<"10.0.0.1/32", "192.0.2.0/24", "2001:db8::1/128", "2001:db8:2::/48">>
SrcPortOrder == <<<<0, 0>>, <<80, 80>>, <<1024, 65535>>>>
DstPortOrder == <<<<0, 0>>, <<22, 22>>, <<8000, 8080>>>>

Sorted(order, chosen) == SelectSeq(order, LAMBDA x : x \in chosen)

SrcAddrs == {"10.0.0.1/32", "192.0.2.0/24", "2001:db8::1/128"}
DstAddrs == {"192.0.2.0/24", "2001:db8::1/128", "2001:db8:2::/48"}
SrcPorts == {SrcPortOrder[i] : i \in 1..Len(SrcPortOrder)}
DstPorts == {DstPortOrder[i] : i \in 1..Len(DstPortOrder)}
Protos == {[str |-> "tcp"], [str |-> "udp"], [str |-> "bogus"], [int |-> 50]}
Actions == {"accept", "deny", "reject"}
Options == {<<>>, <<"tcp-established">>}

Lens == {l \in [1..5 -> 0..MaxTotal] : l[1] + l[2] + l[3] + l[4] + l[5] <= MaxTotal}

OfSize(S, n) == {c \in SUBSET S : Cardinality(c) = n}

AnyTerm ==
  [name |-> "allow-all", action |-> <<"accept">>, flattened_saddr |-> <<>>,
   flattened_daddr |-> <<>>, source_port |-> <<>>, destination_port |-> <<>>,
   protocol |-> <<>>, option |-> <<>>, comment |-> <<>>]

WebTerm ==
  [name |-> "deny-web", action |-> <<"deny">>,
   flattened_saddr |-> <<"10.0.0.1/32", "2001:db8::1/128">>,
   flattened_daddr |-> <<>>, source_port |-> <<>>,
   destination_port |-> <<<<80, 80>>, <<8000, 8080>>>>,
   protocol |-> <<[str |-> "tcp"]>>, option |-> <<>>, comment |-> <<"web">>]

BogusTerm ==
  [name |-> "bad-proto", action |-> <<"accept">>, flattened_saddr |-> <<>>,
   flattened_daddr |-> <<>>, source_port |-> <<>>, destination_port |-> <<>>,
   protocol |-> <<[str |-> "tcp"], [str |-> "bogus"]>>, option |-> <<>>, comment |-> <<>>]

EstablishedUdpTerm ==
  [name |-> "bad-option", action |-> <<"accept">>, flattened_saddr |-> <<>>,
   flattened_daddr |-> <<>>, source_port |-> <<>>, destination_port |-> <<>>,
   protocol |-> <<[str |-> "udp"]>>, option |-> <<"tcp-established">>, comment |-> <<>>]

\* The terms and headers the policies of Spec are made of.
PolicyTerms == {AnyTerm, WebTerm, BogusTerm, EstablishedUdpTerm}

Headers ==
  {[name |-> "edge-in", options |-> <<>>],
   [name |-> "edge-v6", options |-> <<"inet6">>],
   [name |-> "core", options |-> <<"mixed">>],
   [name |-> "core-v4", options |-> <<"noverbose", "inet">>],
   [name |-> "twice", options |-> <<"inet6", "inet6">>],
   [name |-> "both", options |-> <<"mixed", "inet6">>]}

NoTerm == [k \in {} |-> 0]

(***************************************************************************)
(* State.                                                                  *)
(***************************************************************************)
VARIABLES
  pc,                     \* position in _TranslatePolicy / ConvertToDict
  filters,                \* pol.filters read so far: [name, options, terms], with the
                          \* address_family and filter_options chosen for each
  src,                    \* per filter, per emitted entry: [term, af] that emitted it
  filter_name,            \* locals of _TranslatePolicy
  address_family,
  filter_options,
  term,                   \* locals of _TranslateTerms
  term_address_families,  \* families of the current term still to expand
  term_af,
  expanded,               \* outcome of the last ConvertToDict call
  oc_acl_entries,
  acl_sets,               \* self.acl_sets
  total_rule_count,       \* self.total_rule_count
  raised                  \* the exception that ended the run, "" if none

vars ==
  <<pc, filters, src, filter_name, address_family, filter_options, term,
    term_address_families, term_af, expanded, oc_acl_entries, acl_sets,
    total_rule_count, raised>>

NoExpansion == [raised |-> "", rules |-> <<>>]

\* Number of terms read so far over all filters.
RECURSIVE TermsRead(_)
TermsRead(fs) == IF fs = <<>> THEN 0 ELSE Len(Head(fs).terms) + TermsRead(Tail(fs))

(***************************************************************************)
(* Spec: one run of OpenConfig._TranslatePolicy over a policy whose        *)
(* filters and terms are chosen as the loops reach them.                   *)
(***************************************************************************)
\* Lines 306-307, on entry to the loop of line 309.
Init ==
  /\ pc = "filters"
  /\ filters = <<>>
  /\ src = <<>>
  /\ filter_name = ""
  /\ address_family = "inet"
  /\ filter_options = <<>>
  /\ term = NoTerm
  /\ term_address_families = <<>>
  /\ term_af = "inet"
  /\ expanded = NoExpansion
  /\ oc_acl_entries = <<>>
  /\ acl_sets = <<>>
  /\ total_rule_count = 0
  /\ raised = ""

\* Lines 309-321 and 339: the next filter of the policy.
ForHeader(header, order) ==
  /\ pc = "filters"
  /\ Len(filters) < MaxFilters
  /\ LET sel == SelectFamily(header.options, order) IN
       /\ address_family' = sel.address_family
       /\ filter_options' = sel.filter_options
  /\ filter_name' = header.name
  /\ filters' = Append(filters,
                       [name |-> header.name, options |-> header.options, terms |-> <<>>,
                        address_family |-> address_family',
                        filter_options |-> filter_options'])
  /\ src' = Append(src, <<>>)
  /\ oc_acl_entries' = <<>>
  /\ term_address_families' = <<>>
  /\ pc' = "terms"
  /\ UNCHANGED <<term, term_af, expanded, acl_sets, total_rule_count, raised>>

\* Lines 341-348: the next term of the filter.
ForTerm(t) ==
  /\ pc = "terms"
  /\ term_address_families = <<>>
  /\ TermsRead(filters) < MaxTerms
  /\ term' = t
  /\ term_address_families' = TermAddressFamilies(address_family)
  /\ filters' = [filters EXCEPT ![Len(filters)].terms = Append(@, t)]
  /\ UNCHANGED <<pc, src, filter_name, address_family, filter_options, term_af, expanded,
                 oc_acl_entries, acl_sets, total_rule_count, raised>>

\* Lines 349-354: the next family of the term.
ForTermAf ==
  /\ pc = "terms"
  /\ term_address_families # <<>>
  /\ LET af == Head(term_address_families)
         r == TermPass(term, af, filter_options, total_rule_count, oc_acl_entries)
     IN /\ term_af' = af
        /\ expanded' = [raised |-> r.raised, rules |-> r.rules]
        /\ total_rule_count' = r.total_rule_count
        /\ oc_acl_entries' = r.oc_acl_entries
        /\ raised' = r.raised
        /\ pc' = IF r.raised # "" THEN "error" ELSE "terms"
        /\ src' = [src EXCEPT ![Len(src)] =
                     @ \o [k \in 1..(Len(r.oc_acl_entries) - Len(oc_acl_entries)) |->
                             [term |-> Len(filters[Len(filters)].terms), af |-> af]]]
  /\ term_address_families' = Tail(term_address_families)
  /\ UNCHANGED <<filters, filter_name, address_family, filter_options, term, acl_sets>>

\* Lines 355-362: the filter's terms are exhausted.
EndTerms ==
  /\ pc = "terms"
  /\ term_address_families = <<>>
  /\ acl_sets' = AppendAclSet(acl_sets, filter_name, address_family, oc_acl_entries)
  /\ pc' = "filters"
  /\ UNCHANGED <<filters, src, filter_name, address_family, filter_options, term,
                 term_address_families, term_af, expanded, oc_acl_entries,
                 total_rule_count, raised>>

\* Line 326: the policy's filters are exhausted (a policy has at least one).
Return ==
  /\ pc = "filters"
  /\ Len(filters) >= 1
  /\ pc' = "done"
  /\ UNCHANGED <<filters, src, filter_name, address_family, filter_options, term,
                 term_address_families, term_af, expanded, oc_acl_entries, acl_sets,
                 total_rule_count, raised>>

Next ==
  \/ \E header \in Headers, order \in IterationOrders : ForHeader(header, order)
  \/ \E t \in PolicyTerms : ForTerm(t)
  \/ ForTermAf
  \/ EndTerms
  \/ Return

Spec == Init /\ [][Next]_vars

(***************************************************************************)
(* ExpandSpec: Term.ConvertToDict applied to one term under one family.    *)
(* The term is any term over the values above whose lists hold at most     *)
(* MaxTotal elements together.                                             *)
(***************************************************************************)
ExpandInit ==
  /\ pc = "term"
  /\ \E l \in Lens :
       \E a \in Actions, o \in Options,
          s \in OfSize(SrcAddrs, l[1]), d \in OfSize(DstAddrs, l[2]),
          sp \in OfSize(SrcPorts, l[3]), dp \in OfSize(DstPorts, l[4]),
          pr \in [1..l[5] -> Protos] :
         term = [name |-> "t", action |-> <<a>>,
                 flattened_saddr |-> Sorted(AddrOrder, s),
                 flattened_daddr |-> Sorted(AddrOrder, d),
                 source_port |-> Sorted(SrcPortOrder, sp),
                 destination_port |-> Sorted(DstPortOrder, dp),
                 protocol |-> pr, option |-> o, comment |-> <<>>]
  /\ filters = <<>>
  /\ src = <<>>
  /\ filter_name = ""
  /\ address_family = "inet"
  /\ filter_options = <<>>
  /\ term_address_families = <<>>
  /\ term_af = "inet"
  /\ expanded = NoExpansion
  /\ oc_acl_entries = <<>>
  /\ acl_sets = <<>>
  /\ total_rule_count = 0
  /\ raised = ""

Expand(af) ==
  /\ pc = "term"
  /\ term_af' = af
  /\ expanded' = ConvertToDict(term, af, filter_options)
  /\ raised' = expanded'.raised
  /\ pc' = "expanded"
  /\ UNCHANGED <<filters, src, filter_name, address_family, filter_options, term,
                 term_address_families, oc_acl_entries, acl_sets, total_rule_count>>

ExpandNext == \E af \in {"inet", "inet6"} : Expand(af)

ExpandSpec == ExpandInit /\ [][ExpandNext]_vars

(***************************************************************************)
(* Properties.                                                             *)
(***************************************************************************)
AclEntries(set) == set["acl-entries"]["acl-entry"]

RECURSIVE Concat(_)
Concat(sets) == IF sets = <<>> THEN <<>> ELSE AclEntries(Head(sets)) \o Concat(Tail(sets))

\* Every entry given a sequence id so far in the run, in emission order: the
\* entries of the finished rule sets, then those of the filter in progress.
Emitted ==
  Concat(acl_sets) \o (IF Len(acl_sets) < Len(filters) THEN oc_acl_entries ELSE <<>>)

\* The entries of filter f, finished or in progress.
EntriesOf(f) == IF f <= Len(acl_sets) THEN AclEntries(acl_sets[f]) ELSE oc_acl_entries

FamilyTokens(options) == {options[i] : i \in 1..Len(options)} \cap {"inet", "inet6", "mixed"}

Expanded == pc = "expanded" /\ expanded.raised = ""

\* C1: the k-th entry emitted in a run, counted across all filters, terms and
\* family passes, has sequence-id 5*k, and total_rule_count is the number of
\* entries emitted so far (so ids are unique, increasing, never restarted).
C1_SequenceIds ==
  /\ total_rule_count = Len(Emitted)
  /\ \A k \in 1..Len(Emitted) : Emitted[k]["sequence-id"] = 5 * k

C1_Witness ==
  /\ pc = "done"
  /\ Len(acl_sets) = 2
  /\ Len(AclEntries(acl_sets[1])) >= 2
  /\ Len(AclEntries(acl_sets[2])) >= 2
  /\ acl_sets[1]["type"] = "ACL_MIXED"

Count(xs) == IF xs = <<>> THEN 1 ELSE Len(xs)

CountOfVersion(addrs, af) ==
  LET n == Cardinality({i \in 1..Len(addrs) : (addrs[i] \in V4Addrs) <=> (af = "inet")})
  IN IF n = 0 THEN 1 ELSE n

\* C2: a term that expands without error under one family yields a*b*p*q*r
\* entries, every empty list counting as 1.
C2_Cardinality ==
  Expanded =>
    Len(expanded.rules) =
      CountOfVersion(term.flattened_saddr, term_af) *
      CountOfVersion(term.flattened_daddr, term_af) *
      Count(term.source_port) * Count(term.destination_port) * Count(term.protocol)

C2_Witness ==
  /\ Expanded
  /\ Len(expanded.rules) = 4
  /\ term.source_port = <<>>
  /\ Len(term.destination_port) = 2
  /\ Len(term.protocol) = 2

\* C3: in the rule set of a filter declared mixed the entries appear term by
\* term, and within a term the inet entries before the inet6 entries.
C3_MixedOrder ==
  \A f \in 1..Len(filters) :
    filters[f].address_family = "mixed" =>
      /\ Len(src[f]) = Len(EntriesOf(f))
      /\ \A i, j \in 1..Len(src[f]) :
           i < j =>
             \/ src[f][i].term < src[f][j].term
             \/ /\ src[f][i].term = src[f][j].term
                /\ ~(src[f][i].af = "inet6" /\ src[f][j].af = "inet")

C3_Witness ==
  /\ pc = "done"
  /\ \E f \in 1..Len(filters) :
       /\ filters[f].address_family = "mixed"
       /\ \E i, j \in 1..Len(src[f]) :
            /\ i < j
            /\ src[f][i] = [term |-> 1, af |-> "inet6"]
            /\ src[f][j] = [term |-> 2, af |-> "inet"]
       /\ \E i, j \in 1..Len(src[f]) :
            /\ i < j
            /\ src[f][i] = [term |-> 1, af |-> "inet"]
            /\ src[f][j] = [term |-> 1, af |-> "inet6"]

\* The value of e[block]['config'][key] as a list: empty when the key is absent.
Field(e, block, key) ==
  IF block \in DOMAIN e
  THEN IF "config" \in DOMAIN e[block]
       THEN IF key \in DOMAIN e[block]["config"] THEN <<e[block]["config"][key]>> ELSE <<>>
       ELSE <<>>
  ELSE <<>>

AddrsOfVersion(addrs, af) ==
  SelectSeq(addrs, LAMBDA a : (a \in V4Addrs) <=> (af = "inet"))

PortField(range) ==
  IF range = <<0, 0>> THEN <<>>
  ELSE IF range[1] = range[2] THEN <<[int |-> range[1]]>>
  ELSE <<[str |-> <<range[1], "..", range[2]>>]>>

ProtoField(proto) ==
  IF "str" \in DOMAIN proto THEN <<PROTO_MAP[proto.str]>> ELSE <<proto.int>>

Block(af) == IF af = "inet" THEN "ipv4" ELSE "ipv6"

\* C4: the k-th entry returned by ConvertToDict is determined by the tuple of
\* the k-th iteration alone: each address, port and protocol field is absent
\* when that iteration's value is the placeholder and is that iteration's
\* value otherwise; nothing is carried over from an earlier iteration.
C4_EntryFromOwnTuple ==
  Expanded =>
    LET sa == AddrsOfVersion(term.flattened_saddr, term_af)
        da == AddrsOfVersion(term.flattened_daddr, term_af)
        sp == term.source_port
        dp == term.destination_port
        pr == term.protocol
        \* the iteration that emits entry k, as 0-based positions in the five loops
        ir(k) == (k - 1) % Count(pr)
        iq(k) == ((k - 1) \div Count(pr)) % Count(dp)
        ip(k) == ((k - 1) \div (Count(pr) * Count(dp))) % Count(sp)
        ib(k) == ((k - 1) \div (Count(pr) * Count(dp) * Count(sp))) % Count(da)
        ia(k) == (k - 1) \div (Count(pr) * Count(dp) * Count(sp) * Count(da))
    IN \A k \in 1..Len(expanded.rules) :
         LET e == expanded.rules[k] IN
         /\ Field(e, Block(term_af), "source-address") =
              (IF sa = <<>> THEN <<>> ELSE <<sa[ia(k) + 1]>>)
         /\ Field(e, Block(term_af), "destination-address") =
              (IF da = <<>> THEN <<>> ELSE <<da[ib(k) + 1]>>)
         /\ Field(e, "transport", "source-port") =
              (IF sp = <<>> THEN <<>> ELSE PortField(sp[ip(k) + 1]))
         /\ Field(e, "transport", "destination-port") =
              (IF dp = <<>> THEN <<>> ELSE PortField(dp[iq(k) + 1]))
         /\ Field(e, Block(term_af), "protocol") =
              (IF pr = <<>> THEN <<>> ELSE ProtoField(pr[ir(k) + 1]))

HasTcpEstablished(t) == \E i \in 1..Len(t.option) : t.option[i] = "tcp-established"

\* C5: with the tcp-established option, a term whose protocol list is exactly
\* ['tcp'] expands and every entry carries detail-mode BUILTIN and
\* builtin-detail TCP_ESTABLISHED; with any other protocol list the expansion
\* raises TcpEstablishedWithNonTcpError and emits nothing.
C5_TcpEstablished ==
  (pc = "expanded" /\ HasTcpEstablished(term)) =>
    IF term.protocol = <<[str |-> "tcp"]>>
    THEN /\ expanded.raised = ""
         /\ expanded.rules # <<>>
         /\ \A k \in 1..Len(expanded.rules) :
              /\ Field(expanded.rules[k], "transport", "detail-mode") = <<"BUILTIN">>
              /\ Field(expanded.rules[k], "transport", "builtin-detail") = <<"TCP_ESTABLISHED">>
    ELSE /\ expanded.raised = "TcpEstablishedWithNonTcpError"
         /\ expanded.rules = <<>>

C5_Witness ==
  /\ pc = "expanded"
  /\ HasTcpEstablished(term)
  /\ term.protocol = <<[str |-> "tcp"]>>
  /\ Len(expanded.rules) >= 3
  /\ Field(expanded.rules[3], "transport", "source-port") # <<>>

\* C6: when the expansion of a term raises, the run is over: no entry of that
\* term has a sequence id or is in a rule set, nothing it expanded was counted,
\* the filter's rule set is not in acl_sets, and no further step is taken.
C6_AbortOnError ==
  /\ (expanded.raised # "" /\ pc # "expanded") => pc = "error"
  /\ pc = "error" =>
       /\ raised \in {"OcFirewallError", "TcpEstablishedWithNonTcpError"}
       /\ Len(acl_sets) = Len(filters) - 1
       /\ Len(src[Len(src)]) = Len(oc_acl_entries)
       /\ \A i \in 1..Len(src[Len(src)]) :
            src[Len(src)][i].term < Len(filters[Len(filters)].terms)
       /\ total_rule_count = Len(Emitted)
       /\ ~ENABLED Next

C6_Witness ==
  /\ pc = "error"
  /\ raised = "OcFirewallError"
  /\ expanded.rules # <<>>
  /\ oc_acl_entries # <<>>
  /\ Len(acl_sets) = 1
  /\ address_family = "mixed"

IsDegenerate(t) ==
  /\ t.flattened_saddr = <<>>
  /\ t.flattened_daddr = <<>>
  /\ t.source_port = <<>>
  /\ t.destination_port = <<>>
  /\ t.protocol = <<>>
  /\ t.option = <<>>
  /\ t.action = <<"accept">>

\* C7: a term with no addresses, ports, protocol or options and action accept
\* expands under either family to exactly one entry, which holds the action
\* (forwarding-action ACCEPT) and nothing else.
C7_DegenerateTerm ==
  (pc = "expanded" /\ IsDegenerate(term)) =>
    /\ expanded.raised = ""
    /\ Len(expanded.rules) = 1
    /\ DOMAIN expanded.rules[1] = {"actions"}
    /\ expanded.rules[1]["actions"] = [config |-> [x \in {"forwarding-action"} |-> "ACCEPT"]]

C7_Witness ==
  /\ pc = "expanded"
  /\ IsDegenerate(term)
  /\ term_af = "inet6"
  /\ Len(expanded.rules) = 1

TypeTag(family) ==
  IF family = "inet" THEN "ACL_IPV4" ELSE IF family = "inet6" THEN "ACL_IPV6" ELSE "ACL_MIXED"

\* C8: after a successful run acl_sets holds one rule set per filter, in
\* document order, also for a filter without terms; each is named after its
\* filter and typed by the filter's declared family, a mixed filter giving one
\* set of type ACL_MIXED.
C8_OneSetPerFilter ==
  pc = "done" =>
    /\ Len(acl_sets) = Len(filters)
    /\ \A f \in 1..Len(filters) :
         /\ acl_sets[f]["name"] = filters[f].name
         /\ acl_sets[f]["config"]["name"] = filters[f].name
         /\ acl_sets[f]["type"] = acl_sets[f]["config"]["type"]
         /\ acl_sets[f]["type"] \in {"ACL_IPV4", "ACL_IPV6", "ACL_MIXED"}
         /\ Len(AclEntries(acl_sets[f])) = Len(src[f])
         /\ FamilyTokens(filters[f].options) = {} => acl_sets[f]["type"] = "ACL_IPV4"
         /\ \A tok \in {"inet", "inet6", "mixed"} :
              FamilyTokens(filters[f].options) = {tok} => acl_sets[f]["type"] = TypeTag(tok)

C8_Witness ==
  /\ pc = "done"
  /\ Len(filters) = 2
  /\ filters[1].terms = <<>>
  /\ filters[2].options = <<"mixed">>
  /\ \E i, j \in 1..Len(src[2]) : src[2][i].af = "inet" /\ src[2][j].af = "inet6"

\* C9: for every filter, the family is inet when the options hold no family
\* token and is the token when exactly one is present, and the options handed
\* to _TranslateTerms hold no family token at all, whatever the option list.
C9_FamilyTokensConsumed ==
  \A f \in 1..Len(filters) :
    /\ FamilyTokens(filters[f].options) = {} => filters[f].address_family = "inet"
    /\ \A tok \in {"inet", "inet6", "mixed"} :
         FamilyTokens(filters[f].options) = {tok} => filters[f].address_family = tok
    /\ FamilyTokens(filters[f].filter_options) = {}

====
